---- MODULE Spec2Model ----
(***************************************************************************)
(* Model of the wood density / weight calculator.                          *)
(*                                                                         *)
(* The repository holds two WeightCalculator classes with the same method  *)
(* names: the library one in wood_density.py (shrinkage-factor formula)    *)
(* and the one embedded in app.py (ratio formula).  Both are modelled; the *)
(* definitions of the app.py copy carry the prefix app_.                   *)
(*                                                                         *)
(* Python numbers are modelled as exact rationals [n, d] in lowest terms   *)
(* with d > 0, so the arithmetic below is the arithmetic of the source     *)
(* without IEEE rounding, overflow or underflow.  A call ends in an        *)
(* outcome record: a returned value or a raised exception with its         *)
(* message.                                                                *)
(***************************************************************************)
EXTENDS Integers, FiniteSets, Sequences, TLC

VARIABLES module, material, element, method, argument, result

vars == <<module, material, element, method, argument, result>>

----------------------------------------------------------------------------
(* Bounds of the input space *)

MaxMoisture == 4
MaxFsp == 3
MaxDim == 2
MaxScale == 3

----------------------------------------------------------------------------
(* Exact rational arithmetic standing for Python's float operators *)

Abs(x) == IF x < 0 THEN -x ELSE x

RECURSIVE GCD(_, _)
GCD(a, b) == IF b = 0 THEN a ELSE GCD(b, a % b)

Rat(n, d) ==
    LET g == GCD(Abs(n), Abs(d))
        s == IF d < 0 THEN -1 ELSE 1
    IN  [n |-> (s * n) \div g, d |-> (s * d) \div g]

Num(k) == [n |-> k, d |-> 1]
Zero == Num(0)
One == Num(1)

RAdd(x, y) == Rat(x.n * y.d + y.n * x.d, x.d * y.d)
RSub(x, y) == Rat(x.n * y.d - y.n * x.d, x.d * y.d)
RMul(x, y) == Rat(x.n * y.n, x.d * y.d)
RDiv(x, y) == Rat(x.n * y.d, x.d * y.n)

\* a/b <= c/d for b, d > 0, by comparing integer parts and then the
\* reciprocals of the fractional parts (no cross products).
RECURSIVE FracLe(_, _, _, _)
FracLe(a, b, c, d) ==
    LET q1 == a \div b
        q2 == c \div d
        r1 == a % b
        r2 == c % d
    IN  IF q1 # q2 THEN q1 < q2
        ELSE IF r1 = 0 THEN TRUE
        ELSE IF r2 = 0 THEN FALSE
        ELSE FracLe(d, r2, b, r1)

RLe(x, y) == FracLe(x.n, x.d, y.n, y.d)
RLt(x, y) == ~RLe(y, x)
RGt(x, y) == RLt(y, x)

----------------------------------------------------------------------------
(* Outcomes of a call *)

NoCall == [kind |-> "none", msg |-> "", val |-> Zero]
Return(v) == [kind |-> "value", msg |-> "", val |-> v]
Raise(k, m) == [kind |-> k, msg |-> m, val |-> Zero]

\* A ZeroDivisionError raised by Python's / operator.
ZeroDivision == Raise("ZeroDivisionError", "division by zero")

\* isinstance(moisture_content, (int, float))
IsNumber(arg) == arg.type \in {"int", "float"}

----------------------------------------------------------------------------
(* wood_density.py *)

ShrinkageCoefficient == Rat(265, 1000)
WaterDensity == 1000

\* lines 95-101: the shrinkage-factor formula, reached once the checks passed
shrinkage_density(wood, mc) ==
    LET fsp == wood.fibre_saturation_point
        sg == wood.specific_gravity
    IN
    IF RLe(mc, fsp) /\ fsp = Zero
    THEN ZeroDivision
    ELSE
      LET a == IF RLe(mc, fsp) THEN RDiv(RSub(fsp, mc), fsp) ELSE One
          divisor == RAdd(One, RMul(RMul(ShrinkageCoefficient, a), sg))
      IN  IF divisor = Zero
          THEN ZeroDivision
          ELSE Return(RMul(RDiv(sg, divisor), Num(WaterDensity)))

\* faulty variant: the range check of the moisture content is missing
calculate_density_without_range_check(self, moisture_content) ==
    IF ~IsNumber(moisture_content)
    THEN Raise("TypeError", "Moisture content must be a number (int or float)")
    ELSE IF RLt(self.material.fibre_saturation_point, Zero)
    THEN Raise("ValueError", "Fibre saturation point must be non-negative.")
    ELSE shrinkage_density(self.material, moisture_content.num)

calculate_density_at_moisture_content(self, moisture_content) ==
    IF ~IsNumber(moisture_content)
    THEN Raise("TypeError", "Moisture content must be a number (int or float)")
    ELSE IF RLt(moisture_content.num, Zero)
    THEN Raise("ValueError", "Moisture content must be non-negative.")
    ELSE IF RLt(self.material.fibre_saturation_point, Zero)
    THEN Raise("ValueError", "Fibre saturation point must be non-negative.")
    ELSE shrinkage_density(self.material, moisture_content.num)

\* faulty variant: the length is left out of the dimension check
calculate_weight_length_unchecked(self, moisture_content) ==
    IF ~IsNumber(moisture_content)
    THEN Raise("TypeError", "Moisture content must be a number (int or float)")
    ELSE IF RLt(moisture_content.num, Zero)
    THEN Raise("ValueError", "Moisture content must be non-negative.")
    ELSE IF \/ RLt(self.element.width, Zero)
            \/ RLt(self.element.depth, Zero)
    THEN Raise("ValueError", "Element dimensions must be non-negative values.")
    ELSE
      LET volume == RMul(RMul(self.element.width, self.element.depth),
                         self.element.length)
          density == calculate_density_at_moisture_content(self, moisture_content)
      IN  IF density.kind # "value"
          THEN density
          ELSE Return(RMul(volume, density.val))

\* faulty variant: the dimension check rejects zero as well (<= for <)
calculate_weight_zero_rejected(self, moisture_content) ==
    IF ~IsNumber(moisture_content)
    THEN Raise("TypeError", "Moisture content must be a number (int or float)")
    ELSE IF RLt(moisture_content.num, Zero)
    THEN Raise("ValueError", "Moisture content must be non-negative.")
    ELSE IF \/ RLe(self.element.width, Zero)
            \/ RLe(self.element.depth, Zero)
            \/ RLe(self.element.length, Zero)
    THEN Raise("ValueError", "Element dimensions must be non-negative values.")
    ELSE
      LET volume == RMul(RMul(self.element.width, self.element.depth),
                         self.element.length)
          density == calculate_density_at_moisture_content(self, moisture_content)
      IN  IF density.kind # "value"
          THEN density
          ELSE Return(RMul(volume, density.val))

\* faulty variant: "+" for the second "*" of the volume
calculate_weight_volume_slip(self, moisture_content) ==
    IF ~IsNumber(moisture_content)
    THEN Raise("TypeError", "Moisture content must be a number (int or float)")
    ELSE IF RLt(moisture_content.num, Zero)
    THEN Raise("ValueError", "Moisture content must be non-negative.")
    ELSE IF \/ RLt(self.element.width, Zero)
            \/ RLt(self.element.depth, Zero)
            \/ RLt(self.element.length, Zero)
    THEN Raise("ValueError", "Element dimensions must be non-negative values.")
    ELSE
      LET volume == RAdd(RMul(self.element.width, self.element.depth),
                         self.element.length)
          density == calculate_density_at_moisture_content(self, moisture_content)
      IN  IF density.kind # "value"
          THEN density
          ELSE Return(RMul(volume, density.val))

calculate_weight_at_moisture_content(self, moisture_content) ==
    IF ~IsNumber(moisture_content)
    THEN Raise("TypeError", "Moisture content must be a number (int or float)")
    ELSE IF RLt(moisture_content.num, Zero)
    THEN Raise("ValueError", "Moisture content must be non-negative.")
    ELSE IF \/ RLt(self.element.width, Zero)
            \/ RLt(self.element.depth, Zero)
            \/ RLt(self.element.length, Zero)
    THEN Raise("ValueError", "Element dimensions must be non-negative values.")
    ELSE
      LET volume == RMul(RMul(self.element.width, self.element.depth),
                         self.element.length)
          density == calculate_density_at_moisture_content(self, moisture_content)
      IN  IF density.kind # "value"
          THEN density
          ELSE Return(RMul(volume, density.val))

----------------------------------------------------------------------------
(* app.py *)

Percent == 100

\* faulty variant: "- 1" for "+ 1" in the moisture factor of the else branch
ratio_density_sign_slip(wood, mc) ==
    LET fsp == wood.fibre_saturation_point
        sg == wood.specific_gravity
        divisor == RAdd(RMul(RDiv(fsp, Num(Percent)), sg), One)
    IN
    IF divisor = Zero
    THEN ZeroDivision
    ELSE IF RGt(mc, fsp)
    THEN Return(RDiv(RMul(RMul(sg, Num(WaterDensity)),
                          RAdd(RDiv(fsp, Num(Percent)), One)),
                     divisor))
    ELSE Return(RDiv(RMul(RMul(sg, Num(WaterDensity)),
                          RSub(RDiv(mc, Num(Percent)), One)),
                     divisor))

\* lines 91-113: the ratio formula, reached once the checks passed
ratio_density(wood, mc) ==
    LET fsp == wood.fibre_saturation_point
        sg == wood.specific_gravity
        divisor == RAdd(RMul(RDiv(fsp, Num(Percent)), sg), One)
    IN
    IF divisor = Zero
    THEN ZeroDivision
    ELSE IF RGt(mc, fsp)
    THEN Return(RDiv(RMul(RMul(sg, Num(WaterDensity)),
                          RAdd(RDiv(fsp, Num(Percent)), One)),
                     divisor))
    ELSE Return(RDiv(RMul(RMul(sg, Num(WaterDensity)),
                          RAdd(RDiv(mc, Num(Percent)), One)),
                     divisor))

\* faulty variant: the check of the fibre saturation point is missing
app_calculate_density_without_fsp_check(self, moisture_content) ==
    IF ~IsNumber(moisture_content)
    THEN Raise("TypeError", "Moisture content must be a number (int or float)")
    ELSE IF RLt(moisture_content.num, Zero)
    THEN Raise("ValueError", "Moisture content must be non-negative.")
    ELSE ratio_density(self.material, moisture_content.num)

app_calculate_density_at_moisture_content(self, moisture_content) ==
    IF ~IsNumber(moisture_content)
    THEN Raise("TypeError", "Moisture content must be a number (int or float)")
    ELSE IF RLt(moisture_content.num, Zero)
    THEN Raise("ValueError", "Moisture content must be non-negative.")
    ELSE IF RLt(self.material.fibre_saturation_point, Zero)
    THEN Raise("ValueError", "Fiber saturation point must be non-negative.")
    ELSE ratio_density(self.material, moisture_content.num)

\* faulty variant: a non-number is reported with ValueError
app_calculate_weight_wrong_exception(self, moisture_content) ==
    IF ~IsNumber(moisture_content)
    THEN Raise("ValueError", "Moisture content must be a number (int or float)")
    ELSE IF RLt(moisture_content.num, Zero)
    THEN Raise("ValueError", "Moisture content must be non-negative.")
    ELSE IF \/ RLt(self.element.width, Zero)
            \/ RLt(self.element.depth, Zero)
            \/ RLt(self.element.length, Zero)
    THEN Raise("ValueError", "Element dimensions must be non-negative values.")
    ELSE
      LET volume == RMul(RMul(self.element.width, self.element.depth),
                         self.element.length)
          density == app_calculate_density_at_moisture_content(self, moisture_content)
      IN  IF density.kind # "value"
          THEN density
          ELSE Return(RMul(volume, density.val))

\* faulty variant: the length is left out of the volume
app_calculate_weight_without_length(self, moisture_content) ==
    IF ~IsNumber(moisture_content)
    THEN Raise("TypeError", "Moisture content must be a number (int or float)")
    ELSE IF RLt(moisture_content.num, Zero)
    THEN Raise("ValueError", "Moisture content must be non-negative.")
    ELSE IF \/ RLt(self.element.width, Zero)
            \/ RLt(self.element.depth, Zero)
            \/ RLt(self.element.length, Zero)
    THEN Raise("ValueError", "Element dimensions must be non-negative values.")
    ELSE
      LET volume == RMul(self.element.width, self.element.depth)
          density == app_calculate_density_at_moisture_content(self, moisture_content)
      IN  IF density.kind # "value"
          THEN density
          ELSE Return(RMul(volume, density.val))

app_calculate_weight_at_moisture_content(self, moisture_content) ==
    IF ~IsNumber(moisture_content)
    THEN Raise("TypeError", "Moisture content must be a number (int or float)")
    ELSE IF RLt(moisture_content.num, Zero)
    THEN Raise("ValueError", "Moisture content must be non-negative.")
    ELSE IF \/ RLt(self.element.width, Zero)
            \/ RLt(self.element.depth, Zero)
            \/ RLt(self.element.length, Zero)
    THEN Raise("ValueError", "Element dimensions must be non-negative values.")
    ELSE
      LET volume == RMul(RMul(self.element.width, self.element.depth),
                         self.element.length)
          density == app_calculate_density_at_moisture_content(self, moisture_content)
      IN  IF density.kind # "value"
          THEN density
          ELSE Return(RMul(volume, density.val))

----------------------------------------------------------------------------
(* Input space *)

\* specific gravities of timber (the documented assumption: positive)
PositiveGravities == {Rat(1, 2), One}

\* specific gravities outside the documented assumption: zero, and the two
\* negative values at which a divisor of one of the formulas vanishes
OtherGravities == {Zero, Num(-50), Rat(-200, 53)}

SpecificGravities == PositiveGravities \cup OtherGravities

FibreSaturationPoints == {Num(k) : k \in -1..MaxFsp}

Dimensions == {Num(k) : k \in -1..MaxDim}

WoodProperties ==
    [specific_gravity : SpecificGravities,
     fibre_saturation_point : FibreSaturationPoints]

ElementProperties ==
    [width : Dimensions, depth : Dimensions, length : Dimensions]

\* the inputs the form of app.py starts with (lines 177-197)
DefaultWood ==
    [specific_gravity |-> Rat(55, 100), fibre_saturation_point |-> Num(30)]

DefaultElement ==
    [width |-> Rat(5, 100), depth |-> Rat(15, 100), length |-> Rat(250, 100)]

DefaultMoisture == [type |-> "float", num |-> Num(18)]

\* arguments passed as moisture_content: ints, floats (the default moisture
\* content among them) and a string
MoistureArgs ==
    {[type |-> "int", num |-> Num(k)] : k \in -1..MaxMoisture}
        \cup {[type |-> "float", num |-> Rat(k, 2)] : k \in {-1, 1}}
        \cup {DefaultMoisture}
        \cup {[type |-> "str", num |-> Zero]}

NoArg == [type |-> "none", num |-> Zero]

calculator == [material |-> material, element |-> element]

----------------------------------------------------------------------------
(* State machine: a constructed calculator on which the two methods are    *)
(* called with arbitrary arguments; the method last called, its argument   *)
(* and its outcome are recorded.                                           *)

Init ==
    /\ module \in {"wood_density", "app"}
    /\ \/ /\ material \in [specific_gravity : PositiveGravities,
                           fibre_saturation_point : FibreSaturationPoints]
          /\ element \in ElementProperties
       \/ /\ material \in [specific_gravity : OtherGravities,
                           fibre_saturation_point : FibreSaturationPoints]
          /\ element \in ElementProperties
       \/ /\ material = DefaultWood
          /\ element = DefaultElement
    /\ method = "none"
    /\ argument = NoArg
    /\ result = NoCall

CalculateDensity ==
    /\ module = "wood_density"
    /\ \E mc \in MoistureArgs :
          /\ argument' = mc
          /\ result' = calculate_density_at_moisture_content(calculator, mc)
    /\ method' = "density"
    /\ UNCHANGED <<module, material, element>>

CalculateWeight ==
    /\ module = "wood_density"
    /\ \E mc \in MoistureArgs :
          /\ argument' = mc
          /\ result' = calculate_weight_at_moisture_content(calculator, mc)
    /\ method' = "weight"
    /\ UNCHANGED <<module, material, element>>

AppCalculateDensity ==
    /\ module = "app"
    /\ \E mc \in MoistureArgs :
          /\ argument' = mc
          /\ result' = app_calculate_density_at_moisture_content(calculator, mc)
    /\ method' = "density"
    /\ UNCHANGED <<module, material, element>>

AppCalculateWeight ==
    /\ module = "app"
    /\ \E mc \in MoistureArgs :
          /\ argument' = mc
          /\ result' = app_calculate_weight_at_moisture_content(calculator, mc)
    /\ method' = "weight"
    /\ UNCHANGED <<module, material, element>>

Next ==
    \/ CalculateDensity
    \/ CalculateWeight
    \/ AppCalculateDensity
    \/ AppCalculateWeight

Spec == Init /\ [][Next]_vars

----------------------------------------------------------------------------
(* Vocabulary of the properties *)

DensityCalled == method = "density"
WeightCalled == method = "weight"

FSP == material.fibre_saturation_point
SG == material.specific_gravity

InvalidArgument(r) == r.kind = "ValueError"
InvalidType(r) == r.kind = "TypeError"
Returned(r) == r.kind = "value"

AnyDimensionNegative ==
    \/ RLt(element.width, Zero)
    \/ RLt(element.depth, Zero)
    \/ RLt(element.length, Zero)

AllDimensionsNonNegative == ~AnyDimensionNegative

NumericNonNegative == IsNumber(argument) /\ RLe(Zero, argument.num)
NumericNegative == IsNumber(argument) /\ RLt(argument.num, Zero)

TypeOK ==
    /\ module \in {"wood_density", "app"}
    /\ material \in WoodProperties \cup {DefaultWood}
    /\ element \in ElementProperties \cup {DefaultElement}
    /\ method \in {"none", "density", "weight"}
    /\ argument \in MoistureArgs \cup {NoArg}
    /\ result.kind \in
          {"none", "value", "TypeError", "ValueError", "ZeroDivisionError"}
    /\ (method = "none") <=> (result = NoCall)

\* the two methods of the calculator under consideration
DensityOf(mc) ==
    IF module = "wood_density"
    THEN calculate_density_at_moisture_content(calculator, mc)
    ELSE app_calculate_density_at_moisture_content(calculator, mc)

WeightOf(mc) ==
    IF module = "wood_density"
    THEN calculate_weight_at_moisture_content(calculator, mc)
    ELSE app_calculate_weight_at_moisture_content(calculator, mc)

AtSaturation == [type |-> "float", num |-> FSP]

AllDimensionsPositive ==
    /\ RGt(element.width, Zero)
    /\ RGt(element.depth, Zero)
    /\ RGt(element.length, Zero)

SomeDimensionZero ==
    \/ element.width = Zero
    \/ element.depth = Zero
    \/ element.length = Zero

----------------------------------------------------------------------------
(* Properties *)

\* C1: for every material and geometry, a numeric moisture content below 0
\* makes both the density call and the weight call end in ValueError, in
\* wood_density.py and in app.py alike.
C1_NegativeMoistureInvalidArgument ==
    (method \in {"density", "weight"} /\ NumericNegative)
        => InvalidArgument(result)

\* the weight method was called with a negative number on a calculator
\* whose material and geometry are otherwise valid
C1_Witness ==
    /\ WeightCalled /\ NumericNegative
    /\ RGt(FSP, Zero) /\ RGt(SG, Zero) /\ AllDimensionsNonNegative
    /\ result = Raise("ValueError", "Moisture content must be non-negative.")

\* C2: a moisture content that is not a number makes both calls end in
\* TypeError, whatever the material and the geometry: the type check comes
\* before every range check.
C2_NonNumericInvalidType ==
    (method \in {"density", "weight"} /\ ~IsNumber(argument))
        => InvalidType(result)

\* the weight method was called with a string on a calculator whose fibre
\* saturation point and geometry would fail the range checks
C2_Witness ==
    /\ WeightCalled /\ argument.type = "str"
    /\ RLt(FSP, Zero) /\ AnyDimensionNegative
    /\ InvalidType(result)

\* C3: when a dimension of the element is below 0, the weight call with a
\* numeric moisture content >= 0 ends in ValueError, for every material.
C3_NegativeDimensionInvalidArgument ==
    (WeightCalled /\ NumericNonNegative /\ AnyDimensionNegative)
        => InvalidArgument(result)

\* only the length is negative, and the material is one whose density
\* cannot be computed (fibre saturation point 0 at moisture content 0)
C3_Witness ==
    /\ WeightCalled /\ IsNumber(argument)
    /\ argument.num = Zero
    /\ RLt(element.length, Zero)
    /\ ~RLt(element.width, Zero) /\ ~RLt(element.depth, Zero)
    /\ FSP = Zero
    /\ result =
          Raise("ValueError", "Element dimensions must be non-negative values.")

\* C4: with a fibre saturation point of 0, the density call with a numeric
\* moisture content >= 0 ends in ValueError; it neither raises another error
\* nor returns a value.
C4_ZeroSaturationPointInvalidArgument ==
    (DensityCalled /\ NumericNonNegative /\ FSP = Zero)
        => InvalidArgument(result)

\* C5: with a fibre saturation point below 0, the density call with a
\* numeric moisture content >= 0 ends in ValueError.
C5_NegativeSaturationPointInvalidArgument ==
    (DensityCalled /\ NumericNonNegative /\ RLt(FSP, Zero))
        => InvalidArgument(result)

C5_Witness ==
    /\ DensityCalled /\ NumericNonNegative
    /\ RLt(FSP, Zero) /\ RGt(SG, Zero)
    /\ result.kind = "ValueError"
    /\ result.msg \in
          {"Fibre saturation point must be non-negative.",
           "Fiber saturation point must be non-negative."}

\* C6: for a fibre saturation point > 0 and a moisture content above it, the
\* density returned is the density at the fibre saturation point itself.
C6_ClampedAboveSaturation ==
    (DensityCalled /\ IsNumber(argument) /\ RGt(FSP, Zero)
                   /\ RGt(argument.num, FSP))
        => result = DensityOf(AtSaturation)

\* C7: for specific gravity > 0, fibre saturation point > 0 and dimensions
\* >= 0, the weight at a moisture content m2 is at least the weight at every
\* m1 with 0 <= m1 <= m2 and m1 <= fsp, and equal to it when fsp <= m1.
C7_WeightNonDecreasingInMoisture ==
    (WeightCalled /\ NumericNonNegative /\ RGt(SG, Zero) /\ RGt(FSP, Zero)
                  /\ AllDimensionsNonNegative)
        => \A m1 \in MoistureArgs :
              (IsNumber(m1) /\ RLe(Zero, m1.num) /\ RLe(m1.num, argument.num))
                  => /\ Returned(result)
                     /\ Returned(WeightOf(m1))
                     /\ RLe(m1.num, FSP)
                           => RLe(WeightOf(m1).val, result.val)
                     /\ RLe(FSP, m1.num)
                           => WeightOf(m1).val = result.val

\* C8: with numeric moisture content >= 0, fibre saturation point > 0,
\* dimensions >= 0 and specific gravity > 0 the density call returns a value
\* > 0; with all dimensions > 0 the weight call returns a value > 0 too.
C8_StrictlyPositiveResults ==
    /\ (DensityCalled /\ NumericNonNegative /\ RGt(FSP, Zero)
                      /\ AllDimensionsNonNegative /\ RGt(SG, Zero))
          => (Returned(result) /\ RGt(result.val, Zero))
    /\ (WeightCalled /\ NumericNonNegative /\ RGt(FSP, Zero)
                     /\ AllDimensionsPositive /\ RGt(SG, Zero))
          => (Returned(result) /\ RGt(result.val, Zero))

\* a weight was computed below the fibre saturation point for an element
\* that is not a unit cube
C8_Witness ==
    /\ WeightCalled /\ NumericNonNegative
    /\ RGt(SG, Zero) /\ RGt(FSP, Zero) /\ AllDimensionsPositive
    /\ RLt(argument.num, FSP)
    /\ RGt(element.length, One)
    /\ Returned(result) /\ RGt(result.val, Zero)

\* C9 as stated: an element with a dimension equal to 0 and the others >= 0
\* has weight 0, without error, whatever the moisture content and material.
C9_ZeroDimensionZeroWeightAlways ==
    (WeightCalled /\ AllDimensionsNonNegative /\ SomeDimensionZero)
        => result = Return(Zero)

\* C9 as amended: an element with a dimension equal to 0 and the others >= 0
\* has weight 0, without error, for every numeric moisture content >= 0,
\* fibre saturation point > 0 and specific gravity >= 0.
C9_ZeroDimensionZeroWeight ==
    (WeightCalled /\ AllDimensionsNonNegative /\ SomeDimensionZero
                  /\ NumericNonNegative /\ RGt(FSP, Zero) /\ RLe(Zero, SG))
        => result = Return(Zero)

\* the width alone is 0 and the material is a physical one
C9_Witness ==
    /\ WeightCalled /\ NumericNonNegative
    /\ element.width = Zero
    /\ RGt(element.depth, Zero) /\ RGt(element.length, Zero)
    /\ RGt(FSP, Zero) /\ RGt(SG, Zero)
    /\ result = Return(Zero)

\* C10: when the weight call's own checks pass, it fails exactly as the
\* density call on the same calculator and argument fails (same exception,
\* same message), and otherwise returns width * depth * length * density.
C10_WeightFollowsDensity ==
    (WeightCalled /\ NumericNonNegative /\ AllDimensionsNonNegative)
        => IF Returned(DensityOf(argument))
           THEN result =
                   Return(RMul(RMul(RMul(element.width, element.depth),
                                    element.length),
                               DensityOf(argument).val))
           ELSE result = DensityOf(argument)

\* the weight call passed its own checks and ended in the density call's
\* complaint about the fibre saturation point
C10_Witness ==
    /\ WeightCalled /\ NumericNonNegative /\ AllDimensionsPositive
    /\ RLt(FSP, Zero)
    /\ result.kind = "ValueError"
    /\ result = DensityOf(argument)

\* the weight method of the calculator under consideration, applied to
\* another element of the same material
WeightWith(other, mc) ==
    IF module = "wood_density"
    THEN calculate_weight_at_moisture_content(
            [material |-> material, element |-> other], mc)
    ELSE app_calculate_weight_at_moisture_content(
            [material |-> material, element |-> other], mc)

DimensionNames == {"width", "depth", "length"}

\* factors k >= 0 by which a dimension is multiplied
ScaleFactors == {Num(k) : k \in 0..MaxScale} \cup {Rat(1, 2)}

\* the element with one dimension multiplied by k
Scaled(dim, k) == [element EXCEPT ![dim] = RMul(k, @)]

\* C11: when the weight call returns a value, the same call on the element
\* with exactly one of width, depth, length multiplied by k >= 0 returns k
\* times that value.
C11_WeightLinearInEachDimension ==
    (WeightCalled /\ Returned(result))
        => \A dim \in DimensionNames : \A k \in ScaleFactors :
              WeightWith(Scaled(dim, k), argument)
                  = Return(RMul(k, result.val))

\* a positive weight of an element that is not a cube, whose double length
\* weighs twice as much
C11_Witness ==
    /\ WeightCalled /\ Returned(result) /\ RGt(result.val, Zero)
    /\ AllDimensionsPositive
    /\ element.length # element.width
    /\ RGt(FSP, Zero) /\ RLt(argument.num, FSP)
    /\ WeightWith(Scaled("length", Num(2)), argument)
          = Return(RMul(Num(2), result.val))

\* f"{x:.2f}" of app.py: a value x >= 0 rounded to hundredths, in hundredths
Hundredths(x) == (200 * x.n + x.d) \div (2 * x.d)

\* C12: for specific gravity 0.55, fibre saturation point 30 and the element
\* 0.05 x 0.15 x 2.5 at moisture content 18 the density call returns
\* 649/1.165 (557.08 to two decimals) and the weight call returns 0.01875
\* times that (10.45 to two decimals), in wood_density.py and in app.py.
C12_DefaultScenarioValues ==
    (material = DefaultWood /\ element = DefaultElement
                            /\ argument = DefaultMoisture)
        => /\ DensityCalled
                 => /\ result = Return(Rat(649000, 1165))
                    /\ Hundredths(result.val) = 55708
           /\ WeightCalled
                 => /\ result = Return(RMul(Rat(1875, 100000),
                                            Rat(649000, 1165)))
                    /\ Hundredths(result.val) = 1045

====
